---- MODULE Spec2Model ----
EXTENDS Integers, Sequences, FiniteSets, TLC

(***************************************************************************)
(* Natural numbers of arbitrary size: little-endian sequences of limbs in  *)
(* 0..LimbBase-1 with no most-significant zero limb (zero is <<>>).        *)
(* They carry the 53-bit significands of Python floats and the exact       *)
(* values the properties compare them with.                                *)
(***************************************************************************)
LimbBits == 15
LimbBase == 32768

RECURSIVE NatNorm(_)
NatNorm(a) ==
    IF a = <<>> THEN a
    ELSE IF a[Len(a)] = 0 THEN NatNorm(SubSeq(a, 1, Len(a) - 1))
    ELSE a

RECURSIVE NatOfInt(_)
NatOfInt(n) ==
    IF n = 0 THEN <<>> ELSE <<n % LimbBase>> \o NatOfInt(n \div LimbBase)

RECURSIVE NatAddC(_, _, _)
NatAddC(a, b, c) ==
    IF a = <<>> /\ b = <<>> THEN (IF c = 0 THEN <<>> ELSE <<c>>)
    ELSE LET x == IF a = <<>> THEN 0 ELSE Head(a)
             y == IF b = <<>> THEN 0 ELSE Head(b)
             t == x + y + c
         IN  <<t % LimbBase>>
               \o NatAddC(IF a = <<>> THEN a ELSE Tail(a),
                          IF b = <<>> THEN b ELSE Tail(b), t \div LimbBase)

NatAdd(a, b) == NatAddC(a, b, 0)

\* a - b for a >= b
RECURSIVE NatSubB(_, _, _)
NatSubB(a, b, c) ==
    IF a = <<>> THEN <<>>
    ELSE LET y == IF b = <<>> THEN 0 ELSE Head(b)
             t == Head(a) - y - c
         IN  <<IF t < 0 THEN t + LimbBase ELSE t>>
               \o NatSubB(Tail(a), IF b = <<>> THEN b ELSE Tail(b),
                          IF t < 0 THEN 1 ELSE 0)

NatSub(a, b) == NatNorm(NatSubB(a, b, 0))

\* -1, 0, 1 as a < b, a = b, a > b
RECURSIVE NatCmpFrom(_, _, _)
NatCmpFrom(a, b, i) ==
    IF i = 0 THEN 0
    ELSE IF a[i] < b[i] THEN -1
    ELSE IF a[i] > b[i] THEN 1
    ELSE NatCmpFrom(a, b, i - 1)

NatCmp(a, b) ==
    IF Len(a) < Len(b) THEN -1
    ELSE IF Len(a) > Len(b) THEN 1
    ELSE NatCmpFrom(a, b, Len(a))

RECURSIVE NatMulSmallC(_, _, _)
NatMulSmallC(a, k, c) ==
    IF a = <<>> THEN (IF c = 0 THEN <<>> ELSE <<c>>)
    ELSE LET t == Head(a) * k + c
         IN  <<t % LimbBase>> \o NatMulSmallC(Tail(a), k, t \div LimbBase)

NatMulSmall(a, k) == IF k = 0 THEN <<>> ELSE NatMulSmallC(a, k, 0)

RECURSIVE NatMul(_, _)
NatMul(a, b) ==
    IF a = <<>> \/ b = <<>> THEN <<>>
    ELSE LET rest == NatMul(a, Tail(b))
         IN  NatAdd(NatMulSmall(a, Head(b)),
                    IF rest = <<>> THEN rest ELSE <<0>> \o rest)

RECURSIVE Zeros(_)
Zeros(n) == IF n = 0 THEN <<>> ELSE <<0>> \o Zeros(n - 1)

NatShl(a, n) ==
    IF a = <<>> THEN a
    ELSE Zeros(n \div LimbBits) \o NatMulSmall(a, 2 ^ (n % LimbBits))

\* floor(a / k) for 0 < k < LimbBase, from the most significant limb down
RECURSIVE NatDivSmallR(_, _, _, _)
NatDivSmallR(a, k, i, r) ==
    IF i = 0 THEN <<>>
    ELSE NatDivSmallR(a, k, i - 1, (r * LimbBase + a[i]) % k)
           \o <<(r * LimbBase + a[i]) \div k>>

NatDivSmall(a, k) == NatNorm(NatDivSmallR(a, k, Len(a), 0))

\* a % k for 0 < k < LimbBase
RECURSIVE NatModSmallR(_, _, _, _)
NatModSmallR(a, k, i, r) ==
    IF i = 0 THEN r ELSE NatModSmallR(a, k, i - 1, (r * LimbBase + a[i]) % k)

NatModSmall(a, k) == NatModSmallR(a, k, Len(a), 0)

NatShr(a, n) ==
    IF n \div LimbBits >= Len(a) THEN <<>>
    ELSE NatDivSmall(SubSeq(a, n \div LimbBits + 1, Len(a)), 2 ^ (n % LimbBits))

RECURSIVE IntBitLen(_)
IntBitLen(n) == IF n = 0 THEN 0 ELSE 1 + IntBitLen(n \div 2)

NatBitLen(a) ==
    IF a = <<>> THEN 0 ELSE LimbBits * (Len(a) - 1) + IntBitLen(a[Len(a)])

NatBit(a, i) ==
    IF i \div LimbBits >= Len(a) THEN 0
    ELSE (a[i \div LimbBits + 1] \div (2 ^ (i % LimbBits))) % 2

\* <<d, r - d * b>> for the largest d with d * b <= r, given r < LimbBase * b:
\* d is found bit by bit from bit j down, b * 2^j taken off r as it goes
RECURSIVE NatDigit(_, _, _, _)
NatDigit(r, b, j, d) ==
    IF j < 0 THEN <<d, r>>
    ELSE IF NatCmp(NatMulSmall(b, 2 ^ j), r) <= 0
         THEN NatDigit(NatSub(r, NatMulSmall(b, 2 ^ j)), b, j - 1, d + 2 ^ j)
         ELSE NatDigit(r, b, j - 1, d)

\* <<quotient, remainder>> of a by b > 0: long division, one limb of a at a
\* time from the most significant; dr is the last step's <<digit, remainder>>
\* and q the digits before it
RECURSIVE NatDivModR(_, _, _, _, _)
NatDivModR(a, b, i, dr, q) ==
    IF i = 0 THEN <<NatNorm(<<dr[1]>> \o q), dr[2]>>
    ELSE NatDivModR(a, b, i - 1,
                    NatDigit(NatNorm(<<a[i]>> \o dr[2]), b, LimbBits - 1, 0),
                    <<dr[1]>> \o q)

NatDivMod(a, b) ==
    IF Len(b) = 1
    THEN <<NatDivSmall(a, b[1]), NatOfInt(NatModSmall(a, b[1]))>>
    ELSE NatDivModR(a, b, Len(a), <<0, <<>>>>, <<>>)

RECURSIVE IntTrailingZeros(_)
IntTrailingZeros(n) == IF n % 2 = 1 THEN 0 ELSE 1 + IntTrailingZeros(n \div 2)

RECURSIVE NatTrailingZeros(_)
NatTrailingZeros(a) ==
    IF Head(a) = 0 THEN LimbBits + NatTrailingZeros(Tail(a))
    ELSE IntTrailingZeros(Head(a))

(***************************************************************************)
(* Python floats: IEEE 754 binary64 values (-1)^s * m * 2^e, kept with m   *)
(* odd (zero is s = 0, m = <<>>, e = 0), every operation rounding its exact *)
(* result to Precision significant bits, ties to even.                     *)
(***************************************************************************)
Precision == 53

Zero == [s |-> 0, m |-> <<>>, e |-> 0]

\* m * 2^e with the z trailing zero bits of m moved into the exponent
FltShift(s, m, e, z) == [s |-> s, m |-> NatShr(m, z), e |-> e + z]

Flt(s, m, e) == IF m = <<>> THEN Zero ELSE FltShift(s, m, e, NatTrailingZeros(m))

IntFlt(n) == Flt(IF n < 0 THEN 1 ELSE 0, NatOfInt(IF n < 0 THEN -n ELSE n), 0)

\* q or q + 1 as the remainder compares (c) with half a unit: ties to even
NatTiesEven(q, c) ==
    IF c > 0 \/ (c = 0 /\ NatBit(q, 0) = 1) THEN NatAddC(q, <<>>, 1) ELSE q

\* a / 2^k to the nearest integer, ties to even, given q = a \div 2^k (k > 0)
NatHalfEven(a, k, q) ==
    NatTiesEven(q, NatCmp(NatSub(a, NatShl(q, k)), NatShl(<<1>>, k - 1)))

\* a * 2^(-k) to the nearest integer, ties to even
NatScaleRound(a, k) ==
    IF k <= 0 THEN NatShl(a, -k) ELSE NatHalfEven(a, k, NatShr(a, k))

\* m * 2^e with the k bits of m beyond Precision rounded away
RoundBits(s, m, e, k) ==
    IF k <= 0 THEN Flt(s, m, e) ELSE Flt(s, NatScaleRound(m, k), e + k)

\* the exact value (-1)^s * m * 2^e rounded to nearest, ties to even
Round(s, m, e) == RoundBits(s, m, e, NatBitLen(m) - Precision)

\* exact (unrounded) arithmetic on the same representation
XNeg(x) == IF x.m = <<>> THEN x ELSE [x EXCEPT !.s = 1 - x.s]
XAbs(x) == [x EXCEPT !.s = 0]
XMul(x, y) == Flt((x.s + y.s) % 2, NatMul(x.m, y.m), x.e + y.e)
\* (-1)^sa * a * 2^e + (-1)^sb * b * 2^e
XAddAligned(sa, a, sb, b, e) ==
    IF sa = sb THEN Flt(sa, NatAdd(a, b), e)
    ELSE IF NatCmp(a, b) >= 0 THEN Flt(sa, NatSub(a, b), e)
    ELSE Flt(sb, NatSub(b, a), e)

XAddAt(x, y, e) ==
    XAddAligned(x.s, NatShl(x.m, x.e - e), y.s, NatShl(y.m, y.e - e), e)

XAdd(x, y) == XAddAt(x, y, IF x.e < y.e THEN x.e ELSE y.e)
XSub(x, y) == XAdd(x, XNeg(y))
XSign(x) == IF x.m = <<>> THEN 0 ELSE IF x.s = 1 THEN -1 ELSE 1
XLe(x, y) == XSign(XSub(x, y)) <= 0
XLt(x, y) == XSign(XSub(x, y)) < 0

RoundFlt(z) == Round(z.s, z.m, z.e)

FMul(x, y) == Round((x.s + y.s) % 2, NatMul(x.m, y.m), x.e + y.e)
FAdd(x, y) == RoundFlt(XAdd(x, y))

\* the quotient qr[1] of x.m * 2^k by y.m, with a sticky bit for a nonzero
\* remainder qr[2], rounded
FDivRound(x, y, k, qr) ==
    Round((x.s + y.s) % 2,
          NatAddC(NatMulSmall(qr[1], 2), <<>>, IF qr[2] = <<>> THEN 0 ELSE 1),
          x.e - y.e - k - 1)

\* x / y with x.m scaled by 2^k, so that the quotient has Precision + 2 bits
FDivScaled(x, y, k) ==
    FDivRound(x, y, IF k > 0 THEN k ELSE 0,
              NatDivMod(NatShl(x.m, IF k > 0 THEN k ELSE 0), y.m))

\* x / y for y # 0: exact when y is a power of two, else rounded
FDiv(x, y) ==
    IF x.m = <<>> THEN Zero
    ELSE IF y.m = <<1>> THEN Flt((x.s + y.s) % 2, x.m, x.e - y.e)
    ELSE FDivScaled(x, y, Precision + 2 + NatBitLen(y.m) - NatBitLen(x.m))

\* a decimal literal n/d (d a power of ten) is the float nearest to it
Dec(n, d) == FDiv(IntFlt(n), IntFlt(d))

(***************************************************************************)
(* Text: what print and the f-string format specifications produce.        *)
(***************************************************************************)
Digits == <<"0", "1", "2", "3", "4", "5", "6", "7", "8", "9">>

RECURSIVE Repeat(_, _)
Repeat(c, n) == IF n <= 0 THEN "" ELSE c \o Repeat(c, n - 1)

\* right-aligned in a field of width w (never cut)
PadLeft(str, w) == Repeat(" ", w - Len(str)) \o str

\* the decimal digits of a natural number, "" for zero
RECURSIVE NatDecimal(_)
NatDecimal(a) ==
    IF a = <<>> THEN ""
    ELSE NatDecimal(NatDivSmall(a, 10)) \o Digits[NatModSmall(a, 10) + 1]

\* zero-filled on the left to at least w characters
ZeroFill(str, w) == Repeat("0", w - Len(str)) \o str

\* the decimal point put before the last d digits
PointBefore(str, d) ==
    SubSeq(str, 1, Len(str) - d)
      \o (IF d > 0 THEN "." \o SubSeq(str, Len(str) - d + 1, Len(str)) ELSE "")

\* format(x, ".<d>f"): the exact value of x rounded to d decimals, ties to even
FormatFixed(x, d) ==
    (IF x.s = 1 THEN "-" ELSE "")
      \o PointBefore(
            ZeroFill(NatDecimal(NatScaleRound(NatMul(x.m, NatOfInt(10 ^ d)), -x.e)),
                     d + 1), d)

\* format(x, "<w>.<d>f")
FormatFixedWidth(x, w, d) == PadLeft(FormatFixed(x, d), w)

\* str(n) of an int held as a float
StrInt(x) ==
    (IF x.s = 1 THEN "-" ELSE "")
      \o (IF x.m = <<>> THEN "0" ELSE NatDecimal(NatShl(x.m, x.e)))

\* the binary digits of n, "" for zero
RECURSIVE Binary(_)
Binary(n) == IF n = 0 THEN "" ELSE Binary(n \div 2) \o Digits[(n % 2) + 1]

\* format(n, "03b") for n >= 0: zero-padded to three digits
Format03b(n) == ZeroFill(IF n = 0 THEN "0" ELSE Binary(n), 3)

(***************************************************************************)
(* class R2RNetwork.  A method returns [exc, val, out]: the exception it   *)
(* raises ("" for none), the value it returns and the lines it prints.     *)
(***************************************************************************)
\* __init__(self, r_value=10000)
R2RNetwork(r_value) ==
    [R |-> r_value, num_bits |-> 3, speaker_load |-> IntFlt(16)]

Returned(val, out) == [exc |-> "", val |-> val, out |-> out]
Raised(exc, out) == [exc |-> exc, val |-> <<>>, out |-> out]

\* mutant: the weights given in the other bit order (v1 as LSB)
thevenin_weights_reversed(self, v1, v2, v3) ==
    Returned(<<FAdd(FAdd(FDiv(v1, IntFlt(8)), FDiv(v2, IntFlt(4))),
                    FDiv(v3, IntFlt(2))),
               self.R>>, <<>>)

\* mutant: 3 / 8 written for v3 / 8
thevenin_constant_term(self, v1, v2, v3) ==
    Returned(<<FAdd(FAdd(FDiv(v1, IntFlt(2)), FDiv(v2, IntFlt(4))),
                    FDiv(IntFlt(3), IntFlt(8))),
               self.R>>, <<>>)

\* mutant: the load counted into the Thevenin resistance
thevenin_resistance_with_load(self, v1, v2, v3) ==
    Returned(<<FAdd(FAdd(FDiv(v1, IntFlt(2)), FDiv(v2, IntFlt(4))),
                    FDiv(v3, IntFlt(8))),
               FAdd(self.R, self.speaker_load)>>, <<>>)

\* v_th = (v1 / 2) + (v2 / 4) + (v3 / 8); r_th = self.R; returns <<v_th, r_th>>
calculate_thevenin_equivalent(self, v1, v2, v3) ==
    Returned(<<FAdd(FAdd(FDiv(v1, IntFlt(2)), FDiv(v2, IntFlt(4))),
                    FDiv(v3, IntFlt(8))),
               self.R>>, <<>>)

\* mutant: power = v_out + current
output_power_as_sum(v_out, current) ==
    Returned(<<v_out, current, FAdd(v_out, current)>>, <<>>)

\* power = v_out * current; return v_out, current, power
output_power(v_out, current) ==
    Returned(<<v_out, current, FMul(v_out, current)>>, <<>>)

\* current = v_out / self.speaker_load
output_current(self, v_out) ==
    IF self.speaker_load = Zero THEN Raised("ZeroDivisionError", <<>>)
    ELSE output_power(v_out, FDiv(v_out, self.speaker_load))

\* mutant: the divider taken across the ladder instead of the speaker
output_across_ladder(self, v_th, sum) ==
    IF sum = Zero THEN Raised("ZeroDivisionError", <<>>)
    ELSE output_current(self, FMul(v_th, FDiv(self.R, sum)))

\* mutant: the divider ratio inverted
output_ratio_inverted(self, v_th, sum) ==
    IF self.speaker_load = Zero THEN Raised("ZeroDivisionError", <<>>)
    ELSE output_current(self, FMul(v_th, FDiv(sum, self.speaker_load)))

\* v_out = v_th * (self.speaker_load / sum), sum being r_th + self.speaker_load
output_divider(self, v_th, sum) ==
    IF sum = Zero THEN Raised("ZeroDivisionError", <<>>)
    ELSE output_current(self, FMul(v_th, FDiv(self.speaker_load, sum)))

\* the rest of calculate_output_voltage once th = <<v_th, r_th>> is known
output_of_thevenin(self, th) ==
    output_divider(self, th[1], FAdd(th[2], self.speaker_load))

\* returns <<v_out, current, power>>; a division by zero raises
calculate_output_voltage(self, v1, v2, v3) ==
    output_of_thevenin(self, calculate_thevenin_equivalent(self, v1, v2, v3).val)

Banner == Repeat("=", 60)

\* what display_results prints before it calls calculate_output_voltage
report_head(self, v1, v2, v3, th) ==
    << Banner,
       "R2R LADDER DAC ANALYSIS",
       Banner,
       "",
       "Configuration:",
       "  Base Resistance (R): "
          \o FormatFixed(FDiv(self.R, IntFlt(1000)), 1) \o " kΩ",
       "  Speaker Load: " \o StrInt(self.speaker_load) \o " Ω",
       "",
       "Input Voltages:",
       "  V1 (MSB): " \o FormatFixed(v1, 3) \o " V",
       "  V2:       " \o FormatFixed(v2, 3) \o " V",
       "  V3 (LSB): " \o FormatFixed(v3, 3) \o " V",
       "",
       "Thevenin Equivalent:",
       "  V_th: " \o FormatFixed(th[1], 6) \o " V",
       "  R_th: " \o FormatFixed(FDiv(th[2], IntFlt(1000)), 1) \o " kΩ" >>

\* what it prints after the call, and return v_out
report_output(head, v_out, current, power) ==
    Returned(<<v_out>>,
             head \o
             << "",
                "Output (across speaker):",
                "  Voltage: " \o FormatFixed(v_out, 6) \o " V",
                "  Current: " \o FormatFixed(FMul(current, IntFlt(1000)), 6) \o " mA",
                "  Power:   " \o FormatFixed(FMul(power, IntFlt(1000)), 6) \o " mW",
                Banner >>)

\* the report given the results of the two calls: the head is printed even
\* when calculate_output_voltage raises
report(head, res) ==
    IF res.exc # "" THEN Raised(res.exc, head)
    ELSE report_output(head, res.val[1], res.val[2], res.val[3])

\* prints the report and returns <<v_out>>
display_results(self, v1, v2, v3) ==
    report(report_head(self, v1, v2, v3,
                       calculate_thevenin_equivalent(self, v1, v2, v3).val),
           calculate_output_voltage(self, v1, v2, v3))

(***************************************************************************)
(* The program: the script under __main__, or a client of the class that   *)
(* constructs one network and calls its methods in any order.              *)
(***************************************************************************)
VARIABLES
    pc,      \* where the program is
    net,     \* the R2RNetwork object (self)
    r_arg,   \* the r_value it was constructed with
    call,    \* the last method call: its name, arguments and result
    kept,    \* an earlier call whose result the caller kept
    stdout,  \* the lines the last step printed
    i,       \* the script's position in range(8)
    rows,    \* the truth table rows printed so far
    others,  \* whether a different call was made since the kept one
    scalar   \* the scalar of the linearity test
vars == <<pc, net, r_arg, call, kept, stdout, i, rows, others, scalar>>

NoNet == [R |-> Zero, num_bits |-> 0, speaker_load |-> Zero]
NoCall == [op |-> "", args |-> <<>>, ret |-> Returned(<<>>, <<>>)]

Call(op, v1, v2, v3, ret) == [op |-> op, args |-> <<v1, v2, v3>>, ret |-> ret]

\* the base resistances a client constructs with: the default, the script's
\* value, small, zero and the one that cancels the speaker load
RValues == {IntFlt(10000), IntFlt(2000), IntFlt(1), Zero, IntFlt(-16)}

\* the input voltages a client calls with
InputTriples ==
    { <<IntFlt(5), IntFlt(5), IntFlt(5)>>,
      <<Dec(33, 10), Dec(15, 10), IntFlt(2)>>,
      <<Dec(-25, 10), Dec(1, 10), Dec(-7, 10)>>,
      <<IntFlt(5), IntFlt(-10), Zero>> }

Init ==
    /\ pc = "start"
    /\ net = NoNet
    /\ r_arg = Zero
    /\ call = NoCall
    /\ kept = NoCall
    /\ stdout = <<>>
    /\ i = 0
    /\ rows = <<>>
    /\ others = FALSE
    /\ scalar = Zero

\* the call c was made: its result and what it printed
Called(c) ==
    /\ call' = c
    /\ stdout' = c.ret.out
    /\ others' = (kept # NoCall /\ (others \/ c # kept))

\* a client imports the module and constructs a network
New(r_value) ==
    /\ pc = "start"
    /\ pc' = "client"
    /\ net' = R2RNetwork(r_value)
    /\ r_arg' = r_value
    /\ UNCHANGED <<call, kept, stdout, i, rows, others, scalar>>

\* mutant: the method adds the load to self.R in place to look into the ladder
CallTheveninUpdatingR(v1, v2, v3) ==
    /\ pc = "client"
    /\ Called(Call("calculate_thevenin_equivalent", v1, v2, v3,
                   calculate_thevenin_equivalent(net, v1, v2, v3)))
    /\ net' = [net EXCEPT !.R = FAdd(net.R, net.speaker_load)]
    /\ UNCHANGED <<pc, r_arg, kept, i, rows, scalar>>

CallThevenin(v1, v2, v3) ==
    /\ pc = "client"
    /\ Called(Call("calculate_thevenin_equivalent", v1, v2, v3,
                   calculate_thevenin_equivalent(net, v1, v2, v3)))
    /\ UNCHANGED <<pc, net, r_arg, kept, i, rows, scalar>>

CallOutput(v1, v2, v3) ==
    /\ pc = "client"
    /\ Called(Call("calculate_output_voltage", v1, v2, v3,
                   calculate_output_voltage(net, v1, v2, v3)))
    /\ UNCHANGED <<pc, net, r_arg, kept, i, rows, scalar>>

CallDisplay(v1, v2, v3) ==
    /\ pc = "client"
    /\ Called(Call("display_results", v1, v2, v3,
                   display_results(net, v1, v2, v3)))
    /\ UNCHANGED <<pc, net, r_arg, kept, i, rows, scalar>>

\* the client keeps the result of the call it just made
Keep ==
    /\ pc = "client"
    /\ call # NoCall
    /\ kept # call
    /\ kept' = call
    /\ others' = FALSE
    /\ UNCHANGED <<pc, net, r_arg, call, stdout, i, rows, scalar>>

(***************************************************************************)
(* The script under __main__                                               *)
(***************************************************************************)
HIGH == IntFlt(5)
LOW == Zero

Examples ==
    << [at |-> "example1", title |-> "Example 1: All bits HIGH (5V)",
        v |-> <<IntFlt(5), IntFlt(5), IntFlt(5)>>, next |-> "example2"],
       [at |-> "example2", title |-> "Example 2: Binary pattern 101",
        v |-> <<IntFlt(5), Zero, IntFlt(5)>>, next |-> "example3"],
       [at |-> "example3", title |-> "Example 3: Custom voltages",
        v |-> <<Dec(33, 10), Dec(15, 10), IntFlt(2)>>, next |-> "table"] >>

\* r2r = R2RNetwork(r_value=2000)
MainNew ==
    /\ pc = "start"
    /\ pc' = "example1"
    /\ net' = R2RNetwork(IntFlt(2000))
    /\ r_arg' = IntFlt(2000)
    /\ UNCHANGED <<call, kept, stdout, i, rows, others, scalar>>

\* print the example's title, then v_out<k> = r2r.display_results(...)
MainExample ==
    \E k \in 1..Len(Examples) :
        /\ pc = Examples[k].at
        /\ call' = Call("display_results", Examples[k].v[1], Examples[k].v[2],
                        Examples[k].v[3],
                        display_results(net, Examples[k].v[1], Examples[k].v[2],
                                        Examples[k].v[3]))
        /\ stdout' = (IF k = 1 THEN <<"">> ELSE <<"", "">>)
                       \o <<Examples[k].title>> \o call'.ret.out
        /\ pc' = Examples[k].next
        /\ UNCHANGED <<net, r_arg, kept, i, rows, others, scalar>>

\* the table's heading; the loop starts at the first element of range(8)
MainHeader ==
    /\ pc = "table"
    /\ stdout' = << "", "", Banner, "TRUTH TABLE (5V logic levels)", Banner,
                    PadLeft("V1", 6) \o " " \o PadLeft("V2", 6) \o " "
                      \o PadLeft("V3", 6) \o " | " \o PadLeft("V_out (V)", 12)
                      \o " | " \o PadLeft("Binary", 6),
                    Repeat("-", 60) >>
    /\ i' = 0
    /\ pc' = "loop"
    /\ UNCHANGED <<net, r_arg, call, kept, rows, others, scalar>>

BitAnd(n, mask) == IF (n \div mask) % 2 = 1 THEN mask ELSE 0

\* the row printed for i
RowLine(v1, v2, v3, v_out, binary) ==
    FormatFixedWidth(v1, 6, 1) \o " " \o FormatFixedWidth(v2, 6, 1) \o " "
      \o FormatFixedWidth(v3, 6, 1) \o " | " \o FormatFixedWidth(v_out, 12, 6)
      \o " | " \o PadLeft(binary, 6)

\* the body of the loop for inputs v1, v2, v3
Row(v1, v2, v3) ==
    /\ call' = Call("calculate_output_voltage", v1, v2, v3,
                    calculate_output_voltage(net, v1, v2, v3))
    /\ rows' = Append(rows, [i |-> i, v1 |-> v1, v2 |-> v2, v3 |-> v3,
                             v_out |-> call'.ret.val[1],
                             binary |-> Format03b(i),
                             line |-> RowLine(v1, v2, v3, call'.ret.val[1],
                                              Format03b(i))])
    /\ stdout' = <<rows'[Len(rows')].line>>
    /\ i' = i + 1
    /\ UNCHANGED <<pc, net, r_arg, kept, others, scalar>>

\* mutant: the bit masks in the other order (v1 from bit 0, v3 from bit 2)
MainRowMasksReversed ==
    /\ pc = "loop"
    /\ i < 8
    /\ Row(IF BitAnd(i, 1) # 0 THEN HIGH ELSE LOW,
           IF BitAnd(i, 2) # 0 THEN HIGH ELSE LOW,
           IF BitAnd(i, 4) # 0 THEN HIGH ELSE LOW)

\* one iteration of: for i in range(8)
MainRow ==
    /\ pc = "loop"
    /\ i < 8
    /\ Row(IF BitAnd(i, 4) # 0 THEN HIGH ELSE LOW,
           IF BitAnd(i, 2) # 0 THEN HIGH ELSE LOW,
           IF BitAnd(i, 1) # 0 THEN HIGH ELSE LOW)

\* range(8) is exhausted: the closing banner
MainEnd ==
    /\ pc = "loop"
    /\ i >= 8
    /\ stdout' = <<Banner>>
    /\ pc' = "done"
    /\ UNCHANGED <<net, r_arg, call, kept, i, rows, others, scalar>>

Next ==
    \/ \E r \in RValues : New(r)
    \/ \E t \in InputTriples : CallThevenin(t[1], t[2], t[3])
    \/ \E t \in InputTriples : CallOutput(t[1], t[2], t[3])
    \/ \E t \in InputTriples : CallDisplay(t[1], t[2], t[3])
    \/ Keep
    \/ MainNew
    \/ MainExample
    \/ MainHeader
    \/ MainRow
    \/ MainEnd

Spec == Init /\ [][Next]_vars

(***************************************************************************)
(* The linearity test of calculate_thevenin_equivalent: one call with      *)
(* (v1, v2, v3), its result kept, then one with (a*v1, a*v2, a*v3).        *)
(***************************************************************************)
MaxTenths == 30

\* the scalars a = k/10
Scalars == {Dec(k, 10) : k \in -MaxTenths..MaxTenths}

LinTriples ==
    InputTriples \cup { <<IntFlt(2), Zero, Dec(33, 10)>>,
                        <<Dec(15, 10), Dec(15, 10), Dec(15, 10)>> }

InitLin ==
    /\ pc = "lin"
    /\ net = R2RNetwork(IntFlt(2000))
    /\ r_arg = IntFlt(2000)
    /\ call = NoCall
    /\ kept = NoCall
    /\ stdout = <<>>
    /\ i = 0
    /\ rows = <<>>
    /\ others = FALSE
    /\ scalar \in Scalars

\* one call of the test: calculate_thevenin_equivalent(v1, v2, v3)
LinCall(v1, v2, v3) ==
    /\ call' = Call("calculate_thevenin_equivalent", v1, v2, v3,
                    calculate_thevenin_equivalent(net, v1, v2, v3))
    /\ stdout' = call'.ret.out

LinBase(v1, v2, v3) ==
    /\ pc = "lin"
    /\ pc' = "lin_base"
    /\ LinCall(v1, v2, v3)
    /\ kept' = call'
    /\ UNCHANGED <<net, r_arg, i, rows, others, scalar>>

LinScaled ==
    /\ pc = "lin_base"
    /\ pc' = "lin_scaled"
    /\ LinCall(FMul(scalar, kept.args[1]), FMul(scalar, kept.args[2]),
               FMul(scalar, kept.args[3]))
    /\ UNCHANGED <<net, r_arg, kept, i, rows, others, scalar>>

NextLin ==
    \/ \E t \in LinTriples : LinBase(t[1], t[2], t[3])
    \/ LinScaled

SpecLin == InitLin /\ [][NextLin]_vars

(***************************************************************************)
(* Properties.  Floats are compared with the real-valued formulas of the   *)
(* specification in exact arithmetic (XAdd, XMul, XSub); U is the unit     *)
(* roundoff of a float operation.                                          *)
(***************************************************************************)
U == Flt(0, <<1>>, -Precision)
Within(x, y, tol) == XLe(XAbs(XSub(x, y)), tol)
\* |x - y| <= 1e-9
Within1e9(x, y) == XLe(XMul(XAbs(XSub(x, y)), IntFlt(1000000000)), IntFlt(1))
Times(n, x) == XMul(IntFlt(n), x)

\* v1/2 + v2/4 + v3/8 and |v1|/2 + |v2|/4 + |v3|/8 as real numbers
Weighted(v) ==
    XAdd(XAdd(XMul(v[1], Flt(0, <<1>>, -1)), XMul(v[2], Flt(0, <<1>>, -2))),
         XMul(v[3], Flt(0, <<1>>, -3)))
WeightedAbs(v) == Weighted(<<XAbs(v[1]), XAbs(v[2]), XAbs(v[3])>>)

IsThevenin == call.op = "calculate_thevenin_equivalent"
IsOutput == call.op = "calculate_output_voltage"
Positive(x) == XSign(x) > 0

\* C1: calculate_thevenin_equivalent returns v_th = v1/2 + v2/4 + v3/8 (v1
\* with weight 1/2, v2 with 1/4, v3 with 1/8) within the floating-point
\* tolerance 1e-9 the specification gives, and within two roundings of the
\* real sum, for every base resistance
C1_Superposition ==
    IsThevenin =>
        /\ call.ret.exc = ""
        /\ Within1e9(call.ret.val[1], Weighted(call.args))
        /\ Within(call.ret.val[1], Weighted(call.args),
                  XMul(Times(4, U), WeightedAbs(call.args)))

\* a call whose float sum is not the real sum: the tolerance is needed
C1_Witness ==
    /\ IsThevenin
    /\ Positive(r_arg)
    /\ call.ret.val[1] # Weighted(call.args)

\* C5: the r_th that calculate_thevenin_equivalent returns is the base
\* resistance the network was constructed with, whatever the voltages
C5_TheveninResistance ==
    IsThevenin => call.ret.val[2] = r_arg

C5_Witness ==
    /\ IsThevenin
    /\ r_arg = IntFlt(10000)
    /\ call.args = <<Dec(33, 10), Dec(15, 10), IntFlt(2)>>
    /\ call.ret.val[2] = IntFlt(10000)

\* C2: with positive base and load resistance calculate_output_voltage
\* returns v_out = v_th * load / (r_th + load) up to the rounding of its two
\* operations, for the (v_th, r_th) of calculate_thevenin_equivalent on the
\* same inputs, current = v_out / load and power = v_out * current (which is
\* v_out^2 / load up to rounding); R = 2000, load = 16 and (5, 5, 5) give
\* v_th = 4.375 and v_out = 4.375 * 16 / 2016
C2_OutputVoltage ==
    (IsOutput /\ Positive(r_arg) /\ Positive(net.speaker_load)) =>
        LET th      == calculate_thevenin_equivalent(
                           net, call.args[1], call.args[2], call.args[3]).val
            load    == net.speaker_load
            v_out   == call.ret.val[1]
            current == call.ret.val[2]
            power   == call.ret.val[3]
        IN  /\ call.ret.exc = ""
            /\ Within(XMul(v_out, XAdd(th[2], load)), XMul(th[1], load),
                      XMul(Times(4, U), XAbs(XMul(th[1], load))))
            /\ current = FDiv(v_out, load)
            /\ power = FMul(v_out, current)
            /\ Within(XMul(power, load), XMul(v_out, v_out),
                      XMul(Times(4, U), XMul(v_out, v_out)))
            /\ (r_arg = IntFlt(2000)
                  /\ call.args = <<IntFlt(5), IntFlt(5), IntFlt(5)>>) =>
                 /\ th[1] = Dec(4375, 1000)
                 /\ v_out = FDiv(FMul(Dec(4375, 1000), IntFlt(16)), IntFlt(2016))

C2_Witness ==
    /\ IsOutput
    /\ r_arg = IntFlt(2000)
    /\ call.args = <<IntFlt(5), IntFlt(5), IntFlt(5)>>
    /\ call.ret.exc = ""
    /\ Positive(call.ret.val[3])

\* C6: with positive load and Thevenin resistance the output magnitude is
\* between 0 and the magnitude of the Thevenin voltage of the same inputs
C6_DividerBound ==
    (IsOutput /\ Positive(r_arg) /\ Positive(net.speaker_load)) =>
        LET v_th == calculate_thevenin_equivalent(
                        net, call.args[1], call.args[2], call.args[3]).val[1]
        IN  /\ call.ret.exc = ""
            /\ XLe(Zero, XAbs(call.ret.val[1]))
            /\ XLe(XAbs(call.ret.val[1]), XAbs(v_th))

\* a negative Thevenin voltage divided down to a smaller magnitude
C6_Witness ==
    /\ IsOutput
    /\ Positive(r_arg)
    /\ call.ret.exc = ""
    /\ XSign(call.ret.val[1]) < 0
    /\ XLt(XAbs(call.ret.val[1]),
           XAbs(calculate_thevenin_equivalent(
                    net, call.args[1], call.args[2], call.args[3]).val[1]))

\* C7: with positive load the power calculate_output_voltage returns is
\* v_out * current and is never negative, negative inputs included
C7_PowerNonNegative ==
    (IsOutput /\ Positive(net.speaker_load) /\ call.ret.exc = "") =>
        /\ call.ret.val[3] = FMul(call.ret.val[1], call.ret.val[2])
        /\ XSign(call.ret.val[3]) >= 0

\* negative inputs, a negative output voltage and current, a positive power
C7_Witness ==
    /\ IsOutput
    /\ call.ret.exc = ""
    /\ XSign(call.args[1]) < 0
    /\ XSign(call.ret.val[1]) < 0
    /\ XSign(call.ret.val[2]) < 0
    /\ XSign(call.ret.val[3]) > 0

\* C9: whatever calls were made, the network holds the configuration it was
\* constructed with, and a call repeated with the same arguments returns
\* (and prints) what the kept earlier call did
C9_ConfigurationFrame ==
    /\ pc # "start" =>
         net = [R |-> r_arg, num_bits |-> 3, speaker_load |-> IntFlt(16)]
    /\ (kept # NoCall /\ call.op = kept.op /\ call.args = kept.args) =>
         call.ret = kept.ret

\* a kept call repeated after different calls were made in between
C9_Witness ==
    /\ kept # NoCall
    /\ others
    /\ call.op = kept.op
    /\ call.args = kept.args
    /\ kept.op = "display_results"
    /\ kept.ret.exc = ""

\* C4 (as claimed): a network with a base resistance <= 0, a load <= 0 or
\* base + load = 0 is never constructed, and no call divides by zero
C4_ValidatedAtConstruction ==
    /\ pc # "start" =>
         /\ Positive(net.R)
         /\ Positive(net.speaker_load)
         /\ XSign(XAdd(net.R, net.speaker_load)) # 0
    /\ call.ret.exc # "ZeroDivisionError"

Patterns == <<"000", "001", "010", "011", "100", "101", "110", "111">>

\* C3: the script prints the truth table rows for i = 0, 1, ..., 7 in this
\* order and no others, row i with the pattern "000".."111" of i, v1, v2, v3
\* high or low as bits 2, 1, 0 of i are set or not, and the v_out of
\* calculate_output_voltage(v1, v2, v3); when it ends there are 8 rows
C3_TruthTable ==
    /\ Len(rows) <= 8
    /\ pc = "done" => Len(rows) = 8
    /\ pc # "loop" /\ pc # "done" => rows = <<>>
    /\ \A k \in 1..Len(rows) :
         LET row == rows[k]
             n   == k - 1
         IN  /\ row.i = n
             /\ row.binary = Patterns[k]
             /\ row.v1 = (IF n >= 4 THEN HIGH ELSE LOW)
             /\ row.v2 = (IF n % 4 >= 2 THEN HIGH ELSE LOW)
             /\ row.v3 = (IF n % 2 = 1 THEN HIGH ELSE LOW)
             /\ row.v_out = calculate_output_voltage(
                                net, row.v1, row.v2, row.v3).val[1]

C3_Witness ==
    /\ pc = "done"
    /\ Len(rows) = 8
    /\ rows[6].binary = "101"
    /\ rows[6].v1 = HIGH /\ rows[6].v2 = LOW /\ rows[6].v3 = HIGH

\* the parts of C10 that do not depend on rounding: v_out strictly increases
\* with i, row 0 has v_out = 0, row 7 has the v_out of (high, high, high)
C10_Monotone ==
    /\ \A k \in 1..Len(rows) : \A l \in 1..Len(rows) :
         k < l => XLt(rows[k].v_out, rows[l].v_out)
    /\ Len(rows) >= 1 => rows[1].v_out = Zero
    /\ Len(rows) = 8 =>
         rows[8].v_out = calculate_output_voltage(net, HIGH, HIGH, HIGH).val[1]

\* C10 (as claimed): in the truth table (high 5 V > low 0 V, R = 2000,
\* load = 16) v_out strictly increases with i, row 0 has v_out = 0, row i
\* has exactly i/7 of row 7's v_out, row 7 the v_out of (high, high, high)
C10_ExactSevenths ==
    /\ C10_Monotone
    /\ Len(rows) = 8 =>
         \A k \in 1..8 : Times(7, rows[k].v_out) = Times(k - 1, rows[8].v_out)

\* C10 (amended): as claimed, but row i has i/7 of row 7's v_out up to the
\* rounding of the two results: |7 * v_out(i) - i * v_out(7)| is at most
\* 4 * U * 7 * v_out(i)
C10_RoundedSevenths ==
    /\ C10_Monotone
    /\ Len(rows) = 8 =>
         \A k \in 1..8 :
            Within(Times(7, rows[k].v_out), Times(k - 1, rows[8].v_out),
                   XMul(Times(28, U), XAbs(rows[k].v_out)))

\* the table is complete and a row is not exactly its share of row 7
C10_Witness ==
    /\ pc = "done"
    /\ Len(rows) = 8
    /\ \E k \in 1..8 : Times(7, rows[k].v_out) # Times(k - 1, rows[8].v_out)

\* C8 (as claimed): the v_th of (a*v1, a*v2, a*v3) equals a times the v_th
\* of (v1, v2, v3)
C8_LinearityExact ==
    pc = "lin_scaled" =>
        call.ret.val[1] = FMul(scalar, kept.ret.val[1])

\* C8 (amended): the v_th of (a*v1, a*v2, a*v3) equals a times the v_th of
\* (v1, v2, v3) up to rounding: they differ by at most
\* 8 * U * |a| * (|v1|/2 + |v2|/4 + |v3|/8)
C8_LinearityRounded ==
    pc = "lin_scaled" =>
        Within(call.ret.val[1], FMul(scalar, kept.ret.val[1]),
               XMul(Times(8, U), XMul(XAbs(scalar), WeightedAbs(kept.args))))

\* a scaled call whose v_th is not the float a * v_th of the kept call
C8_Witness ==
    /\ pc = "lin_scaled"
    /\ scalar = IntFlt(3)
    /\ kept.args = <<IntFlt(2), Zero, Dec(33, 10)>>
    /\ call.ret.val[1] # FMul(scalar, kept.ret.val[1])
====
